---------------------------- MODULE Spec2Model ----------------------------
(***************************************************************************)
(* A model of the data layer of the winter feed reader:                    *)
(*   - the Database (src/state/mod.rs) with its read-marker set, its       *)
(*     subscription map and their mirror directories read/ and subs/;      *)
(*   - the background task inotify_loop / refresh (src/state/inotify.rs);  *)
(*   - the Merge implementations for the two feed kinds;                   *)
(*   - the Fetcher registry (src/fetch/mod.rs) and the MaybeLoaded state   *)
(*     machine advanced by tick (src/document/media.rs).                   *)
(*                                                                         *)
(* Strings are sequences of bytes (0..255); file names are sequences of    *)
(* base64 symbols (0..63, and 64 for the padding character '=').           *)
(***************************************************************************)
EXTENDS Integers, Sequences, FiniteSets, TLC

VARIABLES
    \* ---- Database and its background task
    read_articles_cache,   \* Database.read_articles_cache: set of composite keys
    read_dir,              \* names of the files in <root>/read
    subscriptions_cache,   \* Database.subscriptions_cache: pub_url -> Feed
    subs_dir,              \* the files in <root>/subs: name -> content
    read_lock,             \* who holds the write lock of read_articles_cache
    subs_lock,             \* who holds the write lock of subscriptions_cache
    cpc,                   \* position of each caller of the Database API
    ckey,                  \* the composite key / pub_url the caller works on
    rpc,                   \* position of the background task
    entries,               \* what the open directory handle of refresh has read
    counter,               \* the idle counter of inotify_loop
    mark,                  \* history: the last completed markRead/markUnread per key
    db,                    \* the Database handle: none, open, dropped, failed
    csub,                  \* the merged feed a subscribe call holds between its steps
    lastSub,               \* history: the last subscribe call, what it saw and returned
    submark,               \* history: the last completed subscribe/unsubscribe per pub_url
    since,                 \* history: loop iterations since another instance wrote a file
    queued,                \* the inotify instance holds an event that no read has taken
    \* ---- Fetcher and MaybeLoaded
    in_progress,           \* Fetcher.in_progress: url -> task id (0: no entry)
    task,                  \* the spawned background tasks, in spawn order
    fetch_lock,            \* who holds the write lock of in_progress
    ml,                    \* the MaybeLoaded value of each consumer
    fpc,                   \* position of each consumer inside tick
    handle,                \* the JoinHandle try_finish has removed and holds
    claims,                \* history: how often each task's outcome was returned
    lastTick,              \* history: the last tick call
    lastFinish,            \* history: the last try_finish call
    \* ---- Merge
    mSelf,                 \* the feed merged into (self)
    mFrom,                 \* the last incoming feed (from)
    mPrev,                 \* self before the last merge
    mOther,                \* a second copy that receives the same updates in the other order
    mFirst,                \* the incoming feed merged before mFrom
    mPhase,                \* what has been applied so far
    \* ---- Codec
    cIn,                   \* the string handed to encode_string
    cName,                 \* the file name made of it
    cOut,                  \* what refresh decodes the name to
    cPhase                 \* what has been applied so far

storeVars == <<read_articles_cache, read_dir, subscriptions_cache, subs_dir,
               read_lock, subs_lock, cpc, ckey, rpc, entries, counter, mark,
               db, csub, lastSub, submark, since, queued>>
fetchVars == <<in_progress, task, fetch_lock, ml, fpc, handle, claims,
               lastTick, lastFinish>>
mergeVars == <<mSelf, mFrom, mPrev, mOther, mFirst, mPhase>>
codecVars == <<cIn, cName, cOut, cPhase>>
\* The history of the subscription calls and of the handle, left alone by the
\* read-marker calls and by refresh.
subVars == <<db, csub, lastSub, submark>>
vars == <<storeVars, fetchVars, mergeVars, codecVars>>

Range(s) == {s[i] : i \in DOMAIN s}

(***************************************************************************)
(* Codec: base64, standard alphabet, padded (GeneralPurposeConfig default) *)
(***************************************************************************)
Pad == 64

\* The symbols of one group with the padding left out (the NO_PAD engines).
EncodeChunkNoPad(b) ==
    LET n == b[1] * 65536
             + (IF Len(b) >= 2 THEN b[2] * 256 ELSE 0)
             + (IF Len(b) >= 3 THEN b[3] ELSE 0)
    IN  <<n \div 262144, (n \div 4096) % 64>>
        \o (IF Len(b) >= 2 THEN <<(n \div 64) % 64>> ELSE <<>>)
        \o (IF Len(b) >= 3 THEN <<n % 64>> ELSE <<>>)

\* The symbols of one group of 1, 2 or 3 bytes.
EncodeChunk(b) ==
    LET n == b[1] * 65536
             + (IF Len(b) >= 2 THEN b[2] * 256 ELSE 0)
             + (IF Len(b) >= 3 THEN b[3] ELSE 0)
    IN  <<n \div 262144,
          (n \div 4096) % 64,
          IF Len(b) >= 2 THEN (n \div 64) % 64 ELSE Pad,
          IF Len(b) >= 3 THEN n % 64 ELSE Pad>>

RECURSIVE Encode(_)
Encode(s) ==
    IF Len(s) = 0 THEN <<>>
    ELSE IF Len(s) <= 3 THEN EncodeChunk(s)
    ELSE EncodeChunk(SubSeq(s, 1, 3)) \o Encode(SubSeq(s, 4, Len(s)))

\* One group of four symbols back to bytes; <<-1>> when the group is invalid
\* (a character that is not of the alphabet, misplaced padding).
\* last: padding is only legal in the last group, and the unused low bits of a
\* padded group must be zero.
DecodeChunk(g, last) ==
    LET p3 == g[3] = Pad
        p4 == g[4] = Pad
        n  == g[1] * 262144 + g[2] * 4096
              + (IF p3 THEN 0 ELSE g[3] * 64) + (IF p4 THEN 0 ELSE g[4])
    IN  IF \E i \in 1..4 : g[i] \notin 0..Pad THEN <<-1>>
        ELSE IF g[1] = Pad \/ g[2] = Pad \/ (p3 /\ ~p4) \/ (p4 /\ ~last) THEN <<-1>>
        ELSE IF p3 THEN (IF g[2] % 16 = 0 THEN <<n \div 65536>> ELSE <<-1>>)
        ELSE IF p4 THEN (IF g[3] % 4 = 0
                         THEN <<n \div 65536, (n \div 256) % 256>> ELSE <<-1>>)
        ELSE <<n \div 65536, (n \div 256) % 256, n % 256>>

RECURSIVE DecodeBytes(_)
DecodeBytes(name) ==
    IF Len(name) = 0 THEN <<>>
    ELSE IF Len(name) < 4 THEN <<-1>>
    ELSE DecodeChunk(SubSeq(name, 1, 4), Len(name) = 4)
         \o DecodeBytes(SubSeq(name, 5, Len(name)))

\* String::from_utf8: the bytes are well-formed UTF-8 (one to four bytes per
\* code point, no overlong form, no surrogate, nothing above U+10FFFF).
Cont(x) == x \in 128..191

RECURSIVE IsUtf8(_)
IsUtf8(b) ==
    LET n == Len(b)
        Rest(k) == SubSeq(b, k + 1, n)
    IN  IF n = 0 THEN TRUE
        ELSE IF b[1] \in 0..127 THEN IsUtf8(Rest(1))
        ELSE IF b[1] \in 194..223
             THEN n >= 2 /\ Cont(b[2]) /\ IsUtf8(Rest(2))
        ELSE IF b[1] \in 224..239
             THEN /\ n >= 3
                  /\ b[2] \in (IF b[1] = 224 THEN 160..191
                               ELSE IF b[1] = 237 THEN 128..159 ELSE 128..191)
                  /\ Cont(b[3]) /\ IsUtf8(Rest(3))
        ELSE IF b[1] \in 240..244
             THEN /\ n >= 4
                  /\ b[2] \in (IF b[1] = 240 THEN 144..191
                               ELSE IF b[1] = 244 THEN 128..143 ELSE 128..191)
                  /\ Cont(b[3]) /\ Cont(b[4]) /\ IsUtf8(Rest(4))
        ELSE FALSE

\* base64.decode(name) followed by String::from_utf8: the decoded string, or
\* <<-1>> when the name is not base64 or the bytes are not text.
DecodeFailed == <<-1>>
Decode(name) ==
    LET b == DecodeBytes(name)
    IN  IF (\E i \in DOMAIN b : b[i] < 0) \/ ~IsUtf8(b) THEN DecodeFailed ELSE b

Percent == 37
\* format!("{pub_url}%{article_guid}")
CompositeKey(pub_url, article_guid) == pub_url \o <<Percent>> \o article_guid

(***************************************************************************)
(* Feeds and the Merge implementations                                     *)
(***************************************************************************)
MaxItems == 2                    \* most items of a feed handed to merge
Guids    == {"g1", "g2"}
NoGuid   == "none"               \* rss::Item::guid() == None
Contents == {"c1", "c2"}
Metas    == {"m1", "m2"}         \* everything of a feed that is not its items
Kinds    == {"RSS", "Atom"}

SeqsUpTo(S, n) == UNION {[1..k -> S] : k \in 0..n}

RssItems    == [guid : Guids \cup {NoGuid}, content : Contents]
AtomEntries == [guid : Guids, content : Contents]
RssFeeds    == [kind : {"RSS"}, meta : Metas, items : SeqsUpTo(RssItems, MaxItems)]
AtomFeeds   == [kind : {"Atom"}, meta : Metas, items : SeqsUpTo(AtomEntries, MaxItems)]
Feeds       == RssFeeds \cup AtomFeeds

\* Channel::default() / atom_syndication::Feed::default()
Default(kind) == [kind |-> kind, meta |-> "", items |-> <<>>]

\* The historical retention predicate: keeps exactly the colliding entries.
MergeAtomInverted(self, from) ==
    LET guids_to_write == {from.items[i].guid : i \in DOMAIN from.items}
        orig_items == SelectSeq(self.items, LAMBDA item : item.guid \in guids_to_write)
    IN  [kind |-> "Atom", meta |-> from.meta, items |-> orig_items \o from.items]

\* impl Merge for atom_syndication::Feed
MergeAtom(self, from) ==
    LET guids_to_write == {from.items[i].guid : i \in DOMAIN from.items}
        orig_items == SelectSeq(self.items, LAMBDA item : item.guid \notin guids_to_write)
    IN  [kind |-> "Atom", meta |-> from.meta, items |-> orig_items \o from.items]

\* impl Merge for rss::Channel: an item without guid is never retained.
MergeRss(self, from) ==
    LET guids_to_write == {from.items[i].guid : i \in DOMAIN from.items} \ {NoGuid}
        retained == SelectSeq(self.items,
                        LAMBDA item : item.guid # NoGuid /\ item.guid \notin guids_to_write)
    IN  [kind |-> "RSS", meta |-> from.meta, items |-> retained \o from.items]

\* impl Merge for Feed: mismatched kinds print a message and change nothing.
Merge(self, from) ==
    IF self.kind = "Atom" /\ from.kind = "Atom" THEN MergeAtom(self, from)
    ELSE IF self.kind = "RSS" /\ from.kind = "RSS" THEN MergeRss(self, from)
    ELSE self

(***************************************************************************)
(* Feed files: Feed::to_string and Feed::from_str                          *)
(***************************************************************************)
\* The XML text of a feed: its root element and what it carries.
FeedToString(feed) ==
    [root |-> IF feed.kind = "Atom" THEN "feed" ELSE "rss",
     meta |-> feed.meta, items |-> feed.items]

ParseFailed == [kind |-> "Err"]
\* Atom is tried first, then RSS.
FeedFromStr(text) ==
    IF text.root = "feed" THEN [kind |-> "Atom", meta |-> text.meta, items |-> text.items]
    ELSE IF text.root = "rss" THEN [kind |-> "RSS", meta |-> text.meta, items |-> text.items]
    ELSE ParseFailed

(***************************************************************************)
(* Database: read markers (src/state/mod.rs)                               *)
(***************************************************************************)
PubUrls    == {<<97>>}                  \* "a"
ArticleIds == {<<49>>, <<50>>}          \* "1", "2"
Keys       == {CompositeKey(u, a) : u \in PubUrls, a \in ArticleIds}
Callers    == {"c1", "c2"}
Free       == "free"
NoKey      == <<>>

\* The task holds its inotify instance: the watches are added and the task has
\* not ended.
Watching == rpc \notin {"spawned", "gone", "panicked"}
\* The queue of the instance after a file of read/ or subs/ was created,
\* deleted or (subs/) modified.
Notify == queued \/ Watching

\* Another caller is between the two steps of a call on key k.
OthersBusy(k, c) ==
    \E d \in Callers \ {c} : ckey[d] = k /\ cpc[d] \in {"read_write", "unread_remove_file"}

\* History of the calls on key k, kept in mark[k]: "read" / "unread" once a
\* markRead / markUnread call has returned that overlapped no other call on k
\* and that no opposite call has followed; "mixed" while calls on k overlap.
MarkOnCall(op, k, c) ==
    IF OthersBusy(k, c) THEN "mixed"
    ELSE IF mark[k] = "read_before" THEN "none"
    ELSE IF op = "read" /\ mark[k] = "unread" THEN "none"
    ELSE IF op = "unread" /\ mark[k] = "read" THEN "none"
    ELSE mark[k]

MarkOnReturn(res, k, c, cur) ==
    IF cur = "mixed" THEN (IF OthersBusy(k, c) THEN "mixed" ELSE "none") ELSE res

\* Database::has_read
HasRead(pub_url, article_guid) ==
    CompositeKey(pub_url, article_guid) \in read_articles_cache

\* Database::read, up to the insert under the write lock.
ReadInsert(c, pub_url, article_guid) ==
    LET k == CompositeKey(pub_url, article_guid)
    IN  /\ db = "open"
        /\ cpc[c] = "idle"
        /\ read_lock = Free
        /\ read_articles_cache' = read_articles_cache \cup {k}
        /\ cpc' = [cpc EXCEPT ![c] = "read_write"]
        /\ ckey' = [ckey EXCEPT ![c] = k]
        /\ mark' = [mark EXCEPT ![k] = MarkOnCall("read", k, c)]
        /\ UNCHANGED <<read_dir, subscriptions_cache, subs_dir, read_lock, subs_lock,
                       rpc, entries, counter>>
        /\ UNCHANGED <<subVars, since, queued>>
        /\ UNCHANGED <<fetchVars, mergeVars, codecVars>>

\* Database::read, the write of the marker file, and the return.
ReadWrite(c) ==
    /\ cpc[c] = "read_write"
    /\ read_dir' = read_dir \cup {Encode(ckey[c])}
    /\ cpc' = [cpc EXCEPT ![c] = "idle"]
    /\ ckey' = [ckey EXCEPT ![c] = NoKey]
    /\ mark' = [mark EXCEPT ![ckey[c]] = MarkOnReturn("read", ckey[c], c, @)]
    /\ UNCHANGED <<read_articles_cache, subscriptions_cache, subs_dir, read_lock,
                   subs_lock, rpc, entries, counter>>
    /\ UNCHANGED <<subVars, since>>
    /\ queued' = IF Encode(ckey[c]) \in read_dir THEN queued ELSE Notify
    /\ UNCHANGED <<fetchVars, mergeVars, codecVars>>

\* Database::unread, up to the removal under the write lock; returns at once
\* when the key was not in the set.
UnreadRemove(c, pub_url, article_guid) ==
    LET k == CompositeKey(pub_url, article_guid)
        deleted == k \in read_articles_cache
    IN  /\ db = "open"
        /\ cpc[c] = "idle"
        /\ read_lock = Free
        /\ read_articles_cache' = read_articles_cache \ {k}
        /\ cpc' = [cpc EXCEPT ![c] = IF deleted THEN "unread_remove_file" ELSE "idle"]
        /\ ckey' = [ckey EXCEPT ![c] = IF deleted THEN k ELSE NoKey]
        /\ mark' = [mark EXCEPT ![k] =
                        IF deleted THEN MarkOnCall("unread", k, c)
                        ELSE MarkOnReturn("unread", k, c, MarkOnCall("unread", k, c))]
        /\ UNCHANGED <<read_dir, subscriptions_cache, subs_dir, read_lock, subs_lock,
                       rpc, entries, counter>>
        /\ UNCHANGED <<subVars, since, queued>>
        /\ UNCHANGED <<fetchVars, mergeVars, codecVars>>

\* Database::unread, the removal of the marker file: remove_file fails on a
\* missing file and the expect panics.
UnreadRemoveFile(c) ==
    LET name == Encode(ckey[c])
    IN  /\ cpc[c] = "unread_remove_file"
        /\ IF name \in read_dir
           THEN /\ read_dir' = read_dir \ {name}
                /\ cpc' = [cpc EXCEPT ![c] = "idle"]
                /\ mark' = [mark EXCEPT ![ckey[c]] =
                                MarkOnReturn("unread", ckey[c], c, @)]
           ELSE /\ cpc' = [cpc EXCEPT ![c] = "panicked"]
                /\ mark' = [mark EXCEPT ![ckey[c]] = MarkOnReturn("none", ckey[c], c, @)]
                /\ UNCHANGED read_dir
        /\ ckey' = [ckey EXCEPT ![c] = NoKey]
        /\ UNCHANGED <<read_articles_cache, subscriptions_cache, subs_dir, read_lock,
                       subs_lock, rpc, entries, counter>>
        /\ UNCHANGED <<subVars, since>>
        /\ queued' = IF Encode(ckey[c]) \in read_dir THEN Notify ELSE queued
        /\ UNCHANGED <<fetchVars, mergeVars, codecVars>>

(***************************************************************************)
(* Database: subscriptions (src/state/mod.rs)                              *)
(***************************************************************************)
\* The feeds handed to subscribe: one item; the same item modified and a new
\* one; an item without guid; an entry of the other kind; one guid twice.
SubFeeds ==
    { [kind |-> "RSS",  meta |-> "m1", items |-> <<[guid |-> "g1", content |-> "c1"]>>],
      [kind |-> "RSS",  meta |-> "m2", items |-> <<[guid |-> "g1", content |-> "c2"],
                                                   [guid |-> "g2", content |-> "c1"]>>],
      [kind |-> "RSS",  meta |-> "m1", items |-> <<[guid |-> NoGuid, content |-> "c1"]>>],
      [kind |-> "Atom", meta |-> "m1", items |-> <<[guid |-> "g1", content |-> "c1"]>>],
      [kind |-> "RSS",  meta |-> "m2", items |-> <<[guid |-> "g1", content |-> "c1"],
                                                   [guid |-> "g1", content |-> "c2"]>>] }
NoFeed == [kind |-> "None"]
NoSub  == [who |-> "none"]

\* Another caller is between the two steps of a call on pub_url u.
SubOthersBusy(u, c) ==
    \E d \in Callers \ {c} :
        ckey[d] = u /\ cpc[d] \in {"subscribe_write", "unsubscribe_remove_file"}

\* History of the calls on pub_url u, kept in submark[u], as mark is kept for
\* the read markers.
SubMarkOnCall(op, u, c) ==
    IF SubOthersBusy(u, c) THEN "mixed"
    ELSE IF op = "subscribe" /\ submark[u] = "unsubscribed" THEN "none"
    ELSE IF op = "unsubscribe" /\ submark[u] = "subscribed" THEN "none"
    ELSE submark[u]

SubMarkOnReturn(res, u, c, cur) ==
    IF cur = "mixed" THEN (IF SubOthersBusy(u, c) THEN "mixed" ELSE "none") ELSE res

\* Database::get_subscription(pub_url).is_some()
HasSubscription(pub_url) == pub_url \in DOMAIN subscriptions_cache

\* Database::subscribe, the block under the write lock: the stored feed (or a
\* default one of the kind of channel) is cloned, merged with channel and put
\* back.  A mismatch of kinds is printed by merge; subscribe goes on.
SubscribeMerge(c, pub_url, channel) ==
    LET had    == pub_url \in DOMAIN subscriptions_cache
        stored == IF had THEN subscriptions_cache[pub_url] ELSE Default(channel.kind)
        sub    == Merge(stored, channel)
    IN  /\ db = "open"
        /\ cpc[c] = "idle"
        /\ subs_lock = Free
        /\ subscriptions_cache' =
               [u \in DOMAIN subscriptions_cache \cup {pub_url} |->
                    IF u = pub_url THEN sub ELSE subscriptions_cache[u]]
        /\ csub' = [csub EXCEPT ![c] = sub]
        /\ cpc' = [cpc EXCEPT ![c] = "subscribe_write"]
        /\ ckey' = [ckey EXCEPT ![c] = pub_url]
        /\ lastSub' = [who |-> c, url |-> pub_url, had |-> had, stored |-> stored,
                       update |-> channel, merged |-> sub,
                       eprintln |-> stored.kind # channel.kind,
                       file |-> NoFeed, returned |-> "pending"]
        /\ submark' = [submark EXCEPT ![pub_url] = SubMarkOnCall("subscribe", pub_url, c)]
        /\ UNCHANGED <<read_articles_cache, read_dir, subs_dir, read_lock, subs_lock,
                       rpc, entries, counter, mark, db, since, queued>>
        /\ UNCHANGED <<fetchVars, mergeVars, codecVars>>

\* Database::subscribe, the write of sub.to_string() to subs/<encoded pub_url>,
\* and the return of ().
SubscribeWrite(c) ==
    LET name == Encode(ckey[c])
        text == FeedToString(csub[c])
    IN  /\ cpc[c] = "subscribe_write"
        /\ subs_dir' = [n \in DOMAIN subs_dir \cup {name} |->
                            IF n = name THEN text ELSE subs_dir[n]]
        /\ cpc' = [cpc EXCEPT ![c] = "idle"]
        /\ ckey' = [ckey EXCEPT ![c] = NoKey]
        /\ csub' = [csub EXCEPT ![c] = NoFeed]
        /\ lastSub' = IF lastSub.who = c
                      THEN [lastSub EXCEPT !.file = FeedFromStr(text), !.returned = "unit"]
                      ELSE lastSub
        /\ submark' = [submark EXCEPT ![ckey[c]] =
                           SubMarkOnReturn("subscribed", ckey[c], c, @)]
        /\ UNCHANGED <<read_articles_cache, read_dir, subscriptions_cache, read_lock,
                       subs_lock, rpc, entries, counter, mark, db, since>>
        /\ queued' = Notify
        /\ UNCHANGED <<fetchVars, mergeVars, codecVars>>

\* Database::unsubscribe, the removal from the map; the write lock is kept
\* for the rest of the call.
UnsubscribeRemove(c, pub_url) ==
    LET deleted == pub_url \in DOMAIN subscriptions_cache
    IN  /\ db = "open"
        /\ cpc[c] = "idle"
        /\ subs_lock = Free
        /\ subscriptions_cache' =
               [u \in DOMAIN subscriptions_cache \ {pub_url} |-> subscriptions_cache[u]]
        /\ subs_lock' = IF deleted THEN c ELSE Free
        /\ cpc' = [cpc EXCEPT ![c] = IF deleted THEN "unsubscribe_remove_file" ELSE "idle"]
        /\ ckey' = [ckey EXCEPT ![c] = IF deleted THEN pub_url ELSE NoKey]
        /\ submark' = [submark EXCEPT ![pub_url] =
                           IF deleted THEN SubMarkOnCall("unsubscribe", pub_url, c)
                           ELSE SubMarkOnReturn("unsubscribed", pub_url, c,
                                                SubMarkOnCall("unsubscribe", pub_url, c))]
        /\ UNCHANGED <<read_articles_cache, read_dir, subs_dir, read_lock,
                       rpc, entries, counter, mark, db, csub, lastSub, since, queued>>
        /\ UNCHANGED <<fetchVars, mergeVars, codecVars>>

\* Database::unsubscribe, the removal of the file: remove_file fails on a
\* missing file and the expect panics; the lock guard is dropped either way.
UnsubscribeRemoveFile(c) ==
    LET name == Encode(ckey[c])
    IN  /\ cpc[c] = "unsubscribe_remove_file"
        /\ IF name \in DOMAIN subs_dir
           THEN /\ subs_dir' = [n \in DOMAIN subs_dir \ {name} |-> subs_dir[n]]
                /\ cpc' = [cpc EXCEPT ![c] = "idle"]
                /\ submark' = [submark EXCEPT ![ckey[c]] =
                                   SubMarkOnReturn("unsubscribed", ckey[c], c, @)]
           ELSE /\ cpc' = [cpc EXCEPT ![c] = "panicked"]
                /\ submark' = [submark EXCEPT ![ckey[c]] =
                                   SubMarkOnReturn("none", ckey[c], c, @)]
                /\ UNCHANGED subs_dir
        /\ subs_lock' = Free
        /\ ckey' = [ckey EXCEPT ![c] = NoKey]
        /\ UNCHANGED <<read_articles_cache, read_dir, subscriptions_cache, read_lock,
                       rpc, entries, counter, mark, db, csub, lastSub, since>>
        /\ queued' = IF Encode(ckey[c]) \in DOMAIN subs_dir THEN Notify ELSE queued
        /\ UNCHANGED <<fetchVars, mergeVars, codecVars>>

(***************************************************************************)
(* The background task (src/state/inotify.rs)                              *)
(***************************************************************************)
ForcedRefresh == 5

\* The loop without the counter: a refresh only when read_events returned Ok.
LoopIterationOnEvents ==
    /\ rpc = "loop"
    /\ \E ok \in BOOLEAN :
         IF ok THEN counter' = 0 /\ rpc' = "read_open"
               ELSE counter' = 0 /\ rpc' = "loop"
    /\ UNCHANGED <<read_articles_cache, read_dir, subscriptions_cache, subs_dir,
                   read_lock, subs_lock, cpc, ckey, entries, mark>>
    /\ since' = [x \in DOMAIN since |->
                    IF since[x] \in 0..(ForcedRefresh - 1) THEN since[x] + 1 ELSE since[x]]
    /\ UNCHANGED subVars
    /\ UNCHANGED queued
    /\ UNCHANGED <<fetchVars, mergeVars, codecVars>>

\* inotify.read_events(&mut [0]): the buffer is one byte; an event is no shorter
\* than the four 32-bit fields of struct inotify_event.
BufferLen == 1
EventLen  == 16
\* Whether read_events returns Ok.  With an event queued, read(2) on the
\* instance fails unless the buffer can take the event; with none queued the
\* call gives Ok with no event, or Err (WouldBlock).
ReadEvents == IF queued THEN {BufferLen >= EventLen} ELSE BOOLEAN

\* One iteration of the loop of inotify_loop, entered after the sleep.  ok: the
\* non-blocking read_events call returned Ok, which is what the loop tests.
LoopIteration ==
    /\ rpc = "loop"
    /\ \E ok \in ReadEvents :
         LET n == (counter + 1) % 256
         IN  /\ IF n = ForcedRefresh \/ ok
                THEN counter' = 0 /\ rpc' = "read_open"
                ELSE counter' = n /\ rpc' = "loop"
             /\ queued' = IF ok THEN FALSE ELSE queued
    /\ UNCHANGED <<read_articles_cache, read_dir, subscriptions_cache, subs_dir,
                   read_lock, subs_lock, cpc, ckey, entries, mark>>
    /\ since' = [x \in DOMAIN since |->
                    IF since[x] \in 0..(ForcedRefresh - 1) THEN since[x] + 1 ELSE since[x]]
    /\ UNCHANGED subVars
    /\ UNCHANGED <<fetchVars, mergeVars, codecVars>>

\* The keys of the names when a name that does not decode ends the scan.
DecodedKeysAborts(names) ==
    IF \E n \in names : Decode(n) = DecodeFailed THEN {}
    ELSE {Decode(n) : n \in names}

\* The keys of the names that decode.
DecodedKeys(names) == {Decode(n) : n \in {m \in names : Decode(m) # DecodeFailed}}

\* refresh: tokio::fs::read_dir(read_dir), before the lock is taken.
RefreshOpenRead ==
    /\ rpc = "read_open"
    /\ entries' = read_dir
    /\ rpc' = "read_lock"
    /\ UNCHANGED <<read_articles_cache, read_dir, subscriptions_cache, subs_dir,
                   read_lock, subs_lock, cpc, ckey, counter, mark>>
    /\ UNCHANGED <<subVars, since, queued>>
    /\ UNCHANGED <<fetchVars, mergeVars, codecVars>>

\* The lock taken and the set left as it was.
RefreshLockReadKeeps ==
    /\ rpc = "read_lock"
    /\ read_lock = Free
    /\ read_lock' = "refresh"
    /\ read_articles_cache' = read_articles_cache
    /\ rpc' = "read_scan"
    /\ UNCHANGED <<read_dir, subscriptions_cache, subs_dir, subs_lock, cpc, ckey,
                   entries, counter, mark>>
    /\ UNCHANGED <<subVars, since, queued>>
    /\ UNCHANGED <<fetchVars, mergeVars, codecVars>>

\* refresh: read_articles.write().await and clear().
RefreshLockRead ==
    /\ rpc = "read_lock"
    /\ read_lock = Free
    /\ read_lock' = "refresh"
    /\ read_articles_cache' = {}
    /\ rpc' = "read_scan"
    /\ UNCHANGED <<read_dir, subscriptions_cache, subs_dir, subs_lock, cpc, ckey,
                   entries, counter, mark>>
    /\ UNCHANGED <<subVars, since, queued>>
    /\ UNCHANGED <<fetchVars, mergeVars, codecVars>>

\* refresh: the loop over next_entry under the lock, an insert for every name
\* that decodes, then the lock is dropped.  The handle yields the entries it
\* buffered when it was opened or those the directory holds when it is read.
RefreshScanRead ==
    /\ rpc = "read_scan"
    /\ \E listing \in {entries, read_dir} :
         read_articles_cache' = read_articles_cache \cup DecodedKeys(listing)
    /\ read_lock' = Free
    /\ entries' = {}
    /\ rpc' = "subs_open"
    /\ UNCHANGED <<read_dir, subscriptions_cache, subs_dir, subs_lock, cpc, ckey,
                   counter, mark>>
    /\ UNCHANGED <<subVars, since, queued>>
    /\ UNCHANGED <<fetchVars, mergeVars, codecVars>>

\* tokio::fs::read_to_string(entry.path()) is Ok: the file may be read and
\* holds text.
Readable(text) == text.root # "binary"

\* The subscription map after the loop over sub_dir, without the retain.
ScanSubsKeepsAll(cache, listing, dir) ==
    LET good == {n \in listing : /\ Decode(n) # DecodeFailed
                                 /\ n \in DOMAIN dir
                                 /\ Readable(dir[n])
                                 /\ FeedFromStr(dir[n]).kind # "Err"}
        still_in_subs == {Decode(n) : n \in good}
        NameOf(u) == CHOOSE n \in good : Decode(n) = u
    IN  [u \in still_in_subs \cup DOMAIN cache |->
            IF u \in still_in_subs
            THEN LET channel == FeedFromStr(dir[NameOf(u)])
                 IN  Merge(IF u \in DOMAIN cache THEN cache[u]
                           ELSE Default(channel.kind), channel)
            ELSE cache[u]]

\* The subscription map after the loop over sub_dir and the retain.
ScanSubs(cache, listing, dir) ==
    LET good == {n \in listing : /\ Decode(n) # DecodeFailed
                                 /\ n \in DOMAIN dir
                                 /\ Readable(dir[n])
                                 /\ FeedFromStr(dir[n]).kind # "Err"}
        still_in_subs == {Decode(n) : n \in good}
        NameOf(u) == CHOOSE n \in good : Decode(n) = u
    IN  [u \in still_in_subs |->
            LET channel == FeedFromStr(dir[NameOf(u)])
            IN  Merge(IF u \in DOMAIN cache THEN cache[u] ELSE Default(channel.kind),
                      channel)]

\* refresh: tokio::fs::read_dir(sub_dir), before the lock is taken.
RefreshOpenSubs ==
    /\ rpc = "subs_open"
    /\ entries' = DOMAIN subs_dir
    /\ rpc' = "subs_lock"
    /\ UNCHANGED <<read_articles_cache, read_dir, subscriptions_cache, subs_dir,
                   read_lock, subs_lock, cpc, ckey, counter, mark>>
    /\ UNCHANGED <<subVars, since, queued>>
    /\ UNCHANGED <<fetchVars, mergeVars, codecVars>>

\* The rebuild of the map entered without the write lock.
RefreshLockSubsUnlocked ==
    /\ rpc = "subs_lock"
    /\ subs_lock = Free
    /\ subs_lock' = Free
    /\ rpc' = "subs_scan"
    /\ UNCHANGED <<read_articles_cache, read_dir, subscriptions_cache, subs_dir,
                   read_lock, cpc, ckey, entries, counter, mark>>
    /\ UNCHANGED <<subVars, since, queued>>
    /\ UNCHANGED <<fetchVars, mergeVars, codecVars>>

\* refresh: subscriptions.write().await
RefreshLockSubs ==
    /\ rpc = "subs_lock"
    /\ subs_lock = Free
    /\ subs_lock' = "refresh"
    /\ rpc' = "subs_scan"
    /\ UNCHANGED <<read_articles_cache, read_dir, subscriptions_cache, subs_dir,
                   read_lock, cpc, ckey, entries, counter, mark>>
    /\ UNCHANGED <<subVars, since, queued>>
    /\ UNCHANGED <<fetchVars, mergeVars, codecVars>>

\* refresh: the loop over the subscription files and the retain, under the lock.
RefreshScanSubs ==
    /\ rpc = "subs_scan"
    /\ \E listing \in {entries, DOMAIN subs_dir} :
         subscriptions_cache' = ScanSubs(subscriptions_cache, listing, subs_dir)
    /\ subs_lock' = Free
    /\ entries' = {}
    /\ rpc' = "loop"
    /\ UNCHANGED <<read_articles_cache, read_dir, subs_dir, read_lock, cpc, ckey,
                   counter, mark>>
    /\ UNCHANGED <<subVars, since, queued>>
    /\ UNCHANGED <<fetchVars, mergeVars, codecVars>>

Refresh ==
    \/ RefreshOpenRead \/ RefreshLockRead \/ RefreshScanRead
    \/ RefreshOpenSubs \/ RefreshLockSubs \/ RefreshScanSubs

NextStore ==
    \/ \E c \in Callers, u \in PubUrls, a \in ArticleIds :
         ReadInsert(c, u, a) \/ UnreadRemove(c, u, a)
    \/ \E c \in Callers : ReadWrite(c) \/ UnreadRemoveFile(c)
    \/ LoopIteration
    \/ Refresh

\* Subscriptions against the background task.
NextSubs ==
    \/ \E c \in Callers, u \in PubUrls, f \in SubFeeds : SubscribeMerge(c, u, f)
    \/ \E c \in Callers, u \in PubUrls : UnsubscribeRemove(c, u)
    \/ \E c \in Callers : SubscribeWrite(c) \/ UnsubscribeRemoveFile(c)
    \/ LoopIteration
    \/ Refresh

(***************************************************************************)
(* A second Database on the same root (test::foreign_usage): what its      *)
(* completed calls leave in the two directories                            *)
(***************************************************************************)
NotWritten == -1

\* read(pub_url, article_guid) has completed on the other instance.
ForeignRead(pub_url, article_guid) ==
    LET k == CompositeKey(pub_url, article_guid)
    IN  /\ db = "open"
        /\ Encode(k) \notin read_dir
        /\ read_dir' = read_dir \cup {Encode(k)}
        /\ since' = [since EXCEPT ![k] = 0]
        /\ UNCHANGED <<read_articles_cache, subscriptions_cache, subs_dir, read_lock,
                       subs_lock, cpc, ckey, rpc, entries, counter, mark>>
        /\ UNCHANGED subVars
        /\ queued' = Notify
        /\ UNCHANGED <<fetchVars, mergeVars, codecVars>>

\* subscribe(pub_url, channel) has completed on the other instance, which held
\* no feed for pub_url before.
ForeignSubscribe(pub_url, channel) ==
    LET name == Encode(pub_url)
        sub  == Merge(Default(channel.kind), channel)
    IN  /\ db = "open"
        /\ name \notin DOMAIN subs_dir
        /\ subs_dir' = [n \in DOMAIN subs_dir \cup {name} |->
                            IF n = name THEN FeedToString(sub) ELSE subs_dir[n]]
        /\ since' = [since EXCEPT ![pub_url] = 0]
        /\ UNCHANGED <<read_articles_cache, read_dir, subscriptions_cache, read_lock,
                       subs_lock, cpc, ckey, rpc, entries, counter, mark>>
        /\ UNCHANGED subVars
        /\ queued' = Notify
        /\ UNCHANGED <<fetchVars, mergeVars, codecVars>>

NextForeign ==
    \/ \E u \in PubUrls, a \in ArticleIds : ForeignRead(u, a)
    \/ \E u \in PubUrls, f \in SubFeeds : ForeignSubscribe(u, f)
    \/ LoopIteration
    \/ Refresh

(***************************************************************************)
(* Failures of the filesystem, and the tree edited by other programs       *)
(***************************************************************************)
\* Database::read when tokio::fs::write fails, with a roll-back of the insert.
ReadWriteFailsRollsBack(c) ==
    /\ cpc[c] = "read_write"
    /\ read_articles_cache' = read_articles_cache \ {ckey[c]}
    /\ cpc' = [cpc EXCEPT ![c] = "write_panicked"]
    /\ mark' = [mark EXCEPT ![ckey[c]] = MarkOnReturn("none", ckey[c], c, @)]
    /\ UNCHANGED <<read_dir, subscriptions_cache, subs_dir, read_lock,
                   subs_lock, ckey, rpc, entries, counter>>
    /\ UNCHANGED <<subVars, since, queued>>
    /\ UNCHANGED <<fetchVars, mergeVars, codecVars>>

\* Database::read when tokio::fs::write fails: the expect panics in the caller,
\* after the insert; nothing undoes the insert.
ReadWriteFails(c) ==
    /\ cpc[c] = "read_write"
    /\ cpc' = [cpc EXCEPT ![c] = "write_panicked"]
    /\ mark' = [mark EXCEPT ![ckey[c]] = MarkOnReturn("none", ckey[c], c, @)]
    /\ UNCHANGED <<read_articles_cache, read_dir, subscriptions_cache, subs_dir,
                   read_lock, subs_lock, ckey, rpc, entries, counter>>
    /\ UNCHANGED <<subVars, since, queued>>
    /\ UNCHANGED <<fetchVars, mergeVars, codecVars>>

\* Database::subscribe when tokio::fs::write fails: the expect panics in the
\* caller; the merged feed stays in the map.
SubscribeWriteFails(c) ==
    /\ cpc[c] = "subscribe_write"
    /\ cpc' = [cpc EXCEPT ![c] = "write_panicked"]
    /\ csub' = [csub EXCEPT ![c] = NoFeed]
    /\ lastSub' = IF lastSub.who = c THEN [lastSub EXCEPT !.returned = "panic"]
                  ELSE lastSub
    /\ submark' = [submark EXCEPT ![ckey[c]] = SubMarkOnReturn("none", ckey[c], c, @)]
    /\ UNCHANGED <<read_articles_cache, read_dir, subscriptions_cache, subs_dir,
                   read_lock, subs_lock, ckey, rpc, entries, counter, mark, db, since, queued>>
    /\ UNCHANGED <<fetchVars, mergeVars, codecVars>>

\* refresh: tokio::fs::read_dir(read_dir) fails (the directory was removed or
\* may not be read) and the expect panics in the task.
RefreshOpenReadFails ==
    /\ rpc = "read_open"
    /\ rpc' = "panicked"
    /\ UNCHANGED <<read_articles_cache, read_dir, subscriptions_cache, subs_dir,
                   read_lock, subs_lock, cpc, ckey, entries, counter, mark>>
    /\ UNCHANGED <<subVars, since, queued>>
    /\ UNCHANGED <<fetchVars, mergeVars, codecVars>>

\* refresh: tokio::fs::read_dir(sub_dir) fails and the expect panics.
RefreshOpenSubsFails ==
    /\ rpc = "subs_open"
    /\ rpc' = "panicked"
    /\ UNCHANGED <<read_articles_cache, read_dir, subscriptions_cache, subs_dir,
                   read_lock, subs_lock, cpc, ckey, entries, counter, mark>>
    /\ UNCHANGED <<subVars, since, queued>>
    /\ UNCHANGED <<fetchVars, mergeVars, codecVars>>

\* File names as refresh meets them: symbols of the alphabet, the padding, a
\* character that is not of the alphabet, a byte that is not text.
OtherChar == 65
RawByte   == 66
BadNames ==
    { <<RawByte, 16, Pad, Pad>>,       \* name.to_str() is None
      <<24, OtherChar, Pad, Pad>>,     \* base64.decode(name) is Err
      Encode(<<195>>) }                \* String::from_utf8(data) is Err
ReadNames == {Encode(k) : k \in Keys} \cup BadNames
SubsNames == {Encode(u) : u \in PubUrls} \cup {<<24, OtherChar, Pad, Pad>>}

\* What a file of subs/ may hold: the text of a feed, or text that
\* Feed::from_str rejects.
ResyncFeeds ==
    { [kind |-> "RSS",  meta |-> "m1", items |-> <<[guid |-> "g1", content |-> "c1"]>>],
      [kind |-> "Atom", meta |-> "m1", items |-> <<[guid |-> "g1", content |-> "c1"]>>] }
Garbage == [root |-> "html", meta |-> "m1", items |-> <<>>]
SubsTexts == {FeedToString(f) : f \in ResyncFeeds} \cup {Garbage}

\* Another program creates a file in read/ (the CREATE event of the watch).
ExternalCreate(name) ==
    /\ name \notin read_dir
    /\ read_dir' = read_dir \cup {name}
    /\ UNCHANGED <<read_articles_cache, subscriptions_cache, subs_dir, read_lock,
                   subs_lock, cpc, ckey, rpc, entries, counter, mark>>
    /\ UNCHANGED <<subVars, since>>
    /\ queued' = Notify
    /\ UNCHANGED <<fetchVars, mergeVars, codecVars>>

\* Another program deletes a file of read/ (the DELETE event).
ExternalDelete(name) ==
    /\ name \in read_dir
    /\ read_dir' = read_dir \ {name}
    /\ UNCHANGED <<read_articles_cache, subscriptions_cache, subs_dir, read_lock,
                   subs_lock, cpc, ckey, rpc, entries, counter, mark>>
    /\ UNCHANGED <<subVars, since>>
    /\ queued' = Notify
    /\ UNCHANGED <<fetchVars, mergeVars, codecVars>>

\* Another program creates or rewrites a file of subs/ (CREATE, MODIFY).
ExternalSubsWrite(name, text) ==
    /\ IF name \in DOMAIN subs_dir THEN subs_dir[name] # text ELSE TRUE
    /\ subs_dir' = [n \in DOMAIN subs_dir \cup {name} |->
                        IF n = name THEN text ELSE subs_dir[n]]
    /\ UNCHANGED <<read_articles_cache, read_dir, subscriptions_cache, read_lock,
                   subs_lock, cpc, ckey, rpc, entries, counter, mark>>
    /\ UNCHANGED <<subVars, since>>
    /\ queued' = Notify
    /\ UNCHANGED <<fetchVars, mergeVars, codecVars>>

\* Another program deletes a file of subs/ (DELETE).
ExternalSubsDelete(name) ==
    /\ name \in DOMAIN subs_dir
    /\ subs_dir' = [n \in DOMAIN subs_dir \ {name} |-> subs_dir[n]]
    /\ UNCHANGED <<read_articles_cache, read_dir, subscriptions_cache, read_lock,
                   subs_lock, cpc, ckey, rpc, entries, counter, mark>>
    /\ UNCHANGED <<subVars, since>>
    /\ queued' = Notify
    /\ UNCHANGED <<fetchVars, mergeVars, codecVars>>

RefreshFails == RefreshOpenReadFails \/ RefreshOpenSubsFails

\* One caller marking articles read, with failing writes; read/ edited from
\* outside; the task.
NextResyncRead ==
    \/ \E u \in PubUrls, a \in ArticleIds : ReadInsert("c1", u, a)
    \/ ReadWrite("c1") \/ ReadWriteFails("c1")
    \/ \E n \in ReadNames : ExternalCreate(n) \/ ExternalDelete(n)
    \/ LoopIteration
    \/ Refresh

\* subscribe with failing writes, subs/ edited from outside, and the task.
NextResyncSubs ==
    \/ \E c \in Callers, u \in PubUrls, f \in ResyncFeeds : SubscribeMerge(c, u, f)
    \/ \E c \in Callers : SubscribeWrite(c) \/ SubscribeWriteFails(c)
    \/ \E n \in SubsNames, t \in SubsTexts : ExternalSubsWrite(n, t)
    \/ \E n \in SubsNames : ExternalSubsDelete(n)
    \/ LoopIteration
    \/ Refresh

\* One caller marking articles read and one subscribing, their writes failing
\* or not, against the task.
NextDurable ==
    \/ \E u \in PubUrls, a \in ArticleIds : ReadInsert("c1", u, a)
    \/ \E u \in PubUrls, f \in ResyncFeeds : SubscribeMerge("c2", u, f)
    \/ ReadWrite("c1") \/ ReadWriteFails("c1")
    \/ SubscribeWrite("c2") \/ SubscribeWriteFails("c2")
    \/ LoopIteration
    \/ Refresh

\* The task after its start, over a tree that other programs fill with names
\* that do not decode and feeds that do not parse, and whose directories may
\* become unreadable.
NextFaults ==
    \/ \E n \in BadNames : ExternalCreate(n) \/ ExternalDelete(n)
    \/ \E n \in SubsNames, t \in SubsTexts : ExternalSubsWrite(n, t)
    \/ \E n \in SubsNames : ExternalSubsDelete(n)
    \/ LoopIteration
    \/ Refresh
    \/ RefreshFails

\* A file that read_to_string rejects (no permission, or bytes that are not
\* text).
Binary == [root |-> "binary", meta |-> "m1", items |-> <<>>]
\* The tree as other programs leave it: in read/ two markers and two names that
\* do not decode; in subs/ the files of "a" and "b", each holding a feed, text
\* that does not parse, or no text.
ScanReadNames == {Encode(k) : k \in Keys} \cup {<<RawByte, 16, Pad, Pad>>, Encode(<<195>>)}
ScanSubsNames == {Encode(u) : u \in PubUrls \cup {<<98>>}}
ScanTexts ==
    { FeedToString([kind |-> "RSS", meta |-> "m1",
                    items |-> <<[guid |-> "g1", content |-> "c1"]>>]),
      Garbage, Binary }

NextScan ==
    \/ \E n \in ScanReadNames : ExternalCreate(n) \/ ExternalDelete(n)
    \/ \E n \in ScanSubsNames, t \in ScanTexts : ExternalSubsWrite(n, t)
    \/ \E n \in ScanSubsNames : ExternalSubsDelete(n)
    \/ LoopIteration
    \/ Refresh

\* Two versions of one RSS feed, the second with one more item.
ConvergeFeeds ==
    { [kind |-> "RSS", meta |-> "m1", items |-> <<[guid |-> "g1", content |-> "c1"]>>],
      [kind |-> "RSS", meta |-> "m2", items |-> <<[guid |-> "g1", content |-> "c2"],
                                                  [guid |-> "g2", content |-> "c1"]>>] }

\* Callers subscribing to one pub_url, and the task.
NextConverge ==
    \/ \E c \in Callers, u \in PubUrls, f \in ConvergeFeeds : SubscribeMerge(c, u, f)
    \/ \E c \in Callers : SubscribeWrite(c)
    \/ LoopIteration
    \/ Refresh

(***************************************************************************)
(* Pairs whose pub_url or article id holds the separator                   *)
(***************************************************************************)
\* ("a%b", "c"), ("a", "b%c") and ("a", "c").
AliasPairs ==
    { << <<97, Percent, 98>>, <<99>> >>,
      << <<97>>, <<98, Percent, 99>> >>,
      << <<97>>, <<99>> >> }
\* The pairs the callers pass to read: ("a", "b%c") is never passed.
MarkedPairs == AliasPairs \ { << <<97>>, <<98, Percent, 99>> >> }
AliasKeys == {CompositeKey(p[1], p[2]) : p \in AliasPairs}

NextAlias ==
    \/ \E c \in Callers, p \in MarkedPairs : ReadInsert(c, p[1], p[2])
    \/ \E c \in Callers : ReadWrite(c)
    \/ LoopIteration
    \/ Refresh

(***************************************************************************)
(* The life of a Database: from_dir, the start of its task, drop, and the  *)
(* end of the process                                                      *)
(***************************************************************************)
\* Database::from_dir.  mk_ok: both create_dir_all calls succeed; otherwise the
\* expect panics in the caller and no Database is returned.  The caches are
\* new and empty, the task is spawned and from_dir returns without waiting.
Open(mk_ok) ==
    /\ db = "none"
    /\ IF mk_ok THEN db' = "open" /\ rpc' = "spawned"
                ELSE db' = "failed" /\ rpc' = "gone"
    /\ read_articles_cache' = {} /\ subscriptions_cache' = <<>>
    /\ UNCHANGED <<read_dir, subs_dir, read_lock, subs_lock, cpc, ckey, entries,
                   counter, mark, csub, lastSub, submark, since, queued>>
    /\ UNCHANGED <<fetchVars, mergeVars, codecVars>>

\* inotify_loop up to its first refresh.  watch_ok: Inotify::init and both
\* watches().add calls succeed; otherwise the expect panics inside the spawned
\* task, whose JoinHandle nobody awaits.
TaskStart(watch_ok) ==
    /\ rpc = "spawned"
    /\ rpc' = IF watch_ok THEN "read_open" ELSE "panicked"
    /\ counter' = 0
    /\ UNCHANGED <<read_articles_cache, read_dir, subscriptions_cache, subs_dir,
                   read_lock, subs_lock, cpc, ckey, entries, mark, since>>
    /\ UNCHANGED subVars
    /\ queued' = FALSE
    /\ UNCHANGED <<fetchVars, mergeVars, codecVars>>

\* The Database is dropped (no call borrows it): its fields are dropped, and
\* dropping the JoinHandle _task detaches the task, which keeps its clones of
\* the two caches.
Drop ==
    /\ db = "open"
    /\ \A c \in Callers : cpc[c] \in {"idle", "panicked"}
    /\ db' = "dropped"
    /\ UNCHANGED <<read_articles_cache, read_dir, subscriptions_cache, subs_dir,
                   read_lock, subs_lock, cpc, ckey, rpc, entries, counter, mark,
                   csub, lastSub, submark, since, queued>>
    /\ UNCHANGED <<fetchVars, mergeVars, codecVars>>

\* The runtime shuts down: the task and the callers are gone, the files stay.
\* A markRead that had returned is remembered as made on an earlier Database.
Exit ==
    /\ db \in {"open", "dropped", "failed"}
    /\ db' = "none"
    /\ rpc' = "gone" /\ entries' = {} /\ counter' = 0
    /\ read_articles_cache' = {} /\ subscriptions_cache' = <<>>
    /\ read_lock' = Free /\ subs_lock' = Free
    /\ cpc' = [c \in Callers |-> "idle"]
    /\ ckey' = [c \in Callers |-> NoKey]
    /\ csub' = [c \in Callers |-> NoFeed]
    /\ mark' = [k \in Keys |-> IF mark[k] \in {"read", "read_before"}
                               THEN "read_before" ELSE "none"]
    /\ UNCHANGED <<read_dir, subs_dir, lastSub, submark, since>>
    /\ queued' = FALSE
    /\ UNCHANGED <<fetchVars, mergeVars, codecVars>>

NextLife ==
    \/ \E mk_ok \in BOOLEAN : Open(mk_ok)
    \/ \E watch_ok \in BOOLEAN : TaskStart(watch_ok)
    \/ Drop
    \/ Exit
    \/ \E c \in Callers, u \in PubUrls, a \in ArticleIds :
         ReadInsert(c, u, a) \/ UnreadRemove(c, u, a)
    \/ \E c \in Callers : ReadWrite(c) \/ UnreadRemoveFile(c)
    \/ LoopIteration
    \/ Refresh

(***************************************************************************)
(* Fetcher (src/fetch/mod.rs) and MaybeLoaded (src/document/media.rs)      *)
(***************************************************************************)
MaxTasks  == 3                   \* most background tasks ever spawned
Urls      == {"u1", "u2"}
Consumers == {"a", "b"}          \* the holders of a MaybeLoaded value
NoTask    == 0

\* What a spawned task ends with: a response with a 2xx status, a response with
\* another status, an error of the request (timeout included), or a panic of
\* the task, which its JoinHandle reports as a JoinError.
Finished == {"ok", "bad", "err", "panic"}

NotStarted(url) == [st |-> "NotStarted", url |-> url, val |-> "-"]
\* The value a tick would leave if it did not stop at Working.
WorkingSkipped(url) == [st |-> "Failed", url |-> url, val |-> "error"]
Working(url)    == [st |-> "Working", url |-> url, val |-> "-"]
Done(url, res)  == [st |-> "Done", url |-> url, val |-> res]
Failed(url)     == [st |-> "Failed", url |-> url, val |-> "error"]
BadStatus       == [st |-> "BadStatus", url |-> "-", val |-> "status"]
Terminal        == {"Done", "Failed", "BadStatus"}

NoTick   == [who |-> "-", pre |-> NotStarted("-"), call |-> "-"]
NoFinish == [who |-> "-", url |-> "-", pre |-> <<>>, post |-> <<>>, result |-> "-"]

\* A tick of consumer c begins: what it found and which Fetcher call it makes.
TickRecord(c, call) == [who |-> c, pre |-> ml[c], call |-> call]

\* in_progress.remove(url) kept as a lookup: the entry stays.
RemovePeeks(reg, url) == reg

\* in_progress.remove(url)
Remove(reg, url) == [reg EXCEPT ![url] = NoTask]

\* The unfinished handle is dropped instead of put back.
ReinsertDrops(reg, url, t) == reg

\* in_progress.insert(url, handle) of a handle that is not finished
Reinsert(reg, url, t) == [reg EXCEPT ![url] = t]

\* tick on NotStarted(url): start_download(url), then Working(url).  The check
\* for an entry is made under the read lock, which is released before the
\* write lock is asked for.
TickNotStarted(c) ==
    /\ fpc[c] = "idle"
    /\ ml[c].st = "NotStarted"
    /\ fetch_lock = Free
    /\ lastTick' = TickRecord(c, "start_download")
    /\ IF in_progress[ml[c].url] # NoTask
       THEN /\ ml' = [ml EXCEPT ![c] = Working(ml[c].url)]
            /\ UNCHANGED fpc
       ELSE /\ fpc' = [fpc EXCEPT ![c] = "sd_insert"]
            /\ UNCHANGED ml
    /\ UNCHANGED <<in_progress, task, fetch_lock, handle, claims, lastFinish>>
    /\ UNCHANGED <<storeVars, mergeVars, codecVars>>

\* start_download: the task is spawned and its handle inserted under the write
\* lock, replacing whatever entry the url has by then.
StartDownloadInsert(c) ==
    /\ fpc[c] = "sd_insert"
    /\ fetch_lock = Free
    /\ Len(task) < MaxTasks
    /\ task' = Append(task, [url |-> ml[c].url, st |-> "running"])
    /\ in_progress' = [in_progress EXCEPT ![ml[c].url] = Len(task) + 1]
    /\ ml' = [ml EXCEPT ![c] = Working(ml[c].url)]
    /\ fpc' = [fpc EXCEPT ![c] = "idle"]
    /\ UNCHANGED <<fetch_lock, handle, claims, lastTick, lastFinish>>
    /\ UNCHANGED <<storeVars, mergeVars, codecVars>>

\* The spawned request ends.
TaskFinish(t) ==
    /\ t \in DOMAIN task
    /\ task[t].st = "running"
    /\ \E o \in Finished : task' = [task EXCEPT ![t].st = o]
    /\ UNCHANGED <<in_progress, fetch_lock, ml, fpc, handle, claims, lastTick,
                   lastFinish>>
    /\ UNCHANGED <<storeVars, mergeVars, codecVars>>

\* tick on Working(url): try_finish(url) takes the write lock and removes the
\* entry; without an entry it returns None and tick returns.
TickWorking(c) ==
    LET url == ml[c].url
    IN  /\ fpc[c] = "idle"
        /\ ml[c].st = "Working"
        /\ fetch_lock = Free
        /\ lastTick' = TickRecord(c, "try_finish")
        /\ IF in_progress[url] = NoTask
           THEN /\ lastFinish' = [who |-> c, url |-> url, pre |-> in_progress,
                                  post |-> in_progress, result |-> "absent"]
                /\ UNCHANGED <<in_progress, fetch_lock, fpc, handle>>
           ELSE /\ handle' = [handle EXCEPT ![c] = in_progress[url]]
                /\ in_progress' = Remove(in_progress, url)
                /\ fetch_lock' = c
                /\ fpc' = [fpc EXCEPT ![c] = "tf_decide"]
                /\ lastFinish' = [who |-> c, url |-> url, pre |-> in_progress,
                                  post |-> <<>>, result |-> "-"]
        /\ UNCHANGED <<task, ml, claims>>
        /\ UNCHANGED <<storeVars, mergeVars, codecVars>>

\* try_finish with the removed handle, and the rest of tick: an unfinished
\* handle is inserted again; a finished one is awaited.  A JoinError is printed
\* and gives None; an outcome is returned to tick, which maps it to a state.
\* Reading the body of a 2xx response may fail, and the expect panics.
TryFinishDecide(c) ==
    LET url == ml[c].url
        t   == handle[c]
    IN  /\ fpc[c] = "tf_decide"
        /\ handle' = [handle EXCEPT ![c] = NoTask]
        /\ fetch_lock' = Free
        /\ CASE task[t].st = "running" ->
                  /\ in_progress' = Reinsert(in_progress, url, t)
                  /\ lastFinish' = [lastFinish EXCEPT !.post = in_progress',
                                                      !.result = "pending"]
                  /\ fpc' = [fpc EXCEPT ![c] = "idle"]
                  /\ UNCHANGED <<task, ml, claims>>
             [] task[t].st = "panic" ->
                  /\ task' = [task EXCEPT ![t].st = "join_error"]
                  /\ lastFinish' = [lastFinish EXCEPT !.post = in_progress,
                                                      !.result = "join_error"]
                  /\ fpc' = [fpc EXCEPT ![c] = "idle"]
                  /\ UNCHANGED <<in_progress, ml, claims>>
             [] OTHER ->
                  /\ claims' = [claims EXCEPT ![t] = @ + 1]
                  /\ lastFinish' = [lastFinish EXCEPT !.post = in_progress,
                                                      !.result = task[t].st]
                  /\ \E body \in {"read_fails", "decodes", "decode_fails"} :
                       CASE task[t].st = "err" ->
                              /\ ml' = [ml EXCEPT ![c] = Failed(url)]
                              /\ fpc' = [fpc EXCEPT ![c] = "idle"]
                         [] task[t].st = "bad" ->
                              /\ ml' = [ml EXCEPT ![c] = BadStatus]
                              /\ fpc' = [fpc EXCEPT ![c] = "idle"]
                         [] OTHER ->
                              IF body = "read_fails"
                              THEN /\ fpc' = [fpc EXCEPT ![c] = "panicked"]
                                   /\ UNCHANGED ml
                              ELSE /\ ml' = [ml EXCEPT ![c] =
                                        Done(url, IF body = "decodes" THEN "Ok" ELSE "Err")]
                                   /\ fpc' = [fpc EXCEPT ![c] = "idle"]
                  /\ UNCHANGED <<in_progress, task>>
        /\ UNCHANGED lastTick
        /\ UNCHANGED <<storeVars, mergeVars, codecVars>>

\* A terminal value is polled like a Working one: its entry is taken.
TickTerminalPolls(c) ==
    /\ fpc[c] = "idle"
    /\ ml[c].st \in Terminal
    /\ fetch_lock = Free
    /\ lastTick' = TickRecord(c, "try_finish")
    /\ in_progress' = [u \in Urls |-> IF u = ml[c].url THEN NoTask ELSE in_progress[u]]
    /\ UNCHANGED <<task, fetch_lock, ml, fpc, handle, claims, lastFinish>>
    /\ UNCHANGED <<storeVars, mergeVars, codecVars>>

\* tick on Done, Failed or BadStatus: the let-else returns.
TickTerminal(c) ==
    /\ fpc[c] = "idle"
    /\ ml[c].st \in Terminal
    /\ lastTick' = TickRecord(c, "none")
    /\ UNCHANGED <<in_progress, task, fetch_lock, ml, fpc, handle, claims, lastFinish>>
    /\ UNCHANGED <<storeVars, mergeVars, codecVars>>

Tick(c) ==
    \/ TickNotStarted(c) \/ StartDownloadInsert(c)
    \/ TickWorking(c) \/ TryFinishDecide(c)
    \/ TickTerminal(c)

\* The consumer's value is replaced from outside by NotStarted(url) (a new or
\* redirected subscription attempt).  Kept within the bound on spawned tasks.
Replace(c, url) ==
    /\ fpc[c] = "idle"
    /\ ml[c].st # "NotStarted"
    /\ Len(task) + Cardinality({d \in Consumers :
                        ml[d].st = "NotStarted" \/ fpc[d] = "sd_insert"}) < MaxTasks
    /\ ml' = [ml EXCEPT ![c] = NotStarted(url)]
    /\ lastTick' = IF lastTick.who = c THEN NoTick ELSE lastTick
    /\ UNCHANGED <<in_progress, task, fetch_lock, fpc, handle, claims, lastFinish>>
    /\ UNCHANGED <<storeVars, mergeVars, codecVars>>

NextFetch ==
    \/ \E c \in Consumers : Tick(c)
    \/ \E c \in Consumers, u \in Urls : Replace(c, u)
    \/ \E t \in 1..MaxTasks : TaskFinish(t)

(***************************************************************************)
(* Merge applied to feeds: one copy, and two copies updated in two orders  *)
(***************************************************************************)
\* A stored feed is created from the default feed of the incoming kind
\* (Database::subscribe on an absent entry, refresh on a new file).
Seed(f) ==
    /\ mPhase = "new"
    /\ f.kind = mSelf.kind
    /\ mSelf' = Merge(mSelf, f)
    /\ mPrev' = mSelf
    /\ mFrom' = f
    /\ mOther' = Merge(mSelf, f)
    /\ mPhase' = "seeded"
    /\ UNCHANGED mFirst
    /\ UNCHANGED <<storeVars, fetchVars, codecVars>>

\* sub.merge(channel)
MergeOnce(f) ==
    /\ mPhase = "seeded"
    /\ mSelf' = Merge(mSelf, f)
    /\ mPrev' = mSelf
    /\ mFrom' = f
    /\ mPhase' = "merged"
    /\ UNCHANGED <<mOther, mFirst>>
    /\ UNCHANGED <<storeVars, fetchVars, codecVars>>

\* The same incoming feed is merged a second time.
MergeAgain ==
    /\ mPhase = "merged"
    /\ mSelf' = Merge(mSelf, mFrom)
    /\ mPrev' = mSelf
    /\ mPhase' = "remerged"
    /\ UNCHANGED <<mFrom, mOther, mFirst>>
    /\ UNCHANGED <<storeVars, fetchVars, codecVars>>

\* The feed is merged into itself (into a copy of itself).
MergeSelf ==
    /\ mPhase = "seeded"
    /\ mSelf' = Merge(mSelf, mSelf)
    /\ mPrev' = mSelf
    /\ mFrom' = mSelf
    /\ mPhase' = "selfmerged"
    /\ UNCHANGED <<mOther, mFirst>>
    /\ UNCHANGED <<storeVars, fetchVars, codecVars>>

\* What identifies an item: its guid / entry id; an item without guid is like
\* no other item but itself.
Identity(item) ==
    IF item.guid = NoGuid THEN <<"item", item.content>> ELSE <<"guid", item.guid>>
IdSet(f) == {Identity(f.items[i]) : i \in DOMAIN f.items}

\* Two copies of the stored feed receive the updates a and b in the two orders.
MergeTwoOrders ==
    /\ mPhase = "seeded"
    /\ \E a \in Feeds, b \in Feeds :
         /\ a.kind = mSelf.kind /\ b.kind = mSelf.kind
         /\ IdSet(a) \cap IdSet(b) = {}
         /\ mSelf' = Merge(Merge(mSelf, a), b)
         /\ mOther' = Merge(Merge(mSelf, b), a)
         /\ mFirst' = a
         /\ mFrom' = b
    /\ mPrev' = mSelf
    /\ mPhase' = "pair"
    /\ UNCHANGED <<storeVars, fetchVars, codecVars>>

NextMerge ==
    \/ \E f \in Feeds : Seed(f) \/ MergeOnce(f)
    \/ MergeAgain
    \/ MergeSelf

NextMergePair ==
    \/ \E f \in Feeds : Seed(f)
    \/ MergeTwoOrders

(***************************************************************************)
(* File names: encode_string, the join with the directory, and the decode  *)
(* done by refresh                                                         *)
(***************************************************************************)
MaxLen == 3                      \* longest string handed to encode_string
Slash  == 63                     \* '/', the last symbol of the STANDARD alphabet
\* '%', '/', '?', 'a' and the two bytes of U+00E9
CodecBytes  == {37, 47, 63, 97, 195, 169}
CodecInputs == {s \in SeqsUpTo(CodecBytes, MaxLen) : IsUtf8(s)}

\* A caller passes another &str.
CodecPick(s) ==
    /\ cPhase \in {"decoded", "written", "write_panicked"}
    /\ cIn' = s /\ cName' = <<>> /\ cOut' = <<>>
    /\ cPhase' = "new"
    /\ UNCHANGED <<storeVars, fetchVars, mergeVars>>

\* self.base64.encode_string(s, &mut name)
CodecEncode ==
    /\ cPhase = "new"
    /\ cName' = Encode(cIn)
    /\ cPhase' = "encoded"
    /\ UNCHANGED <<cIn, cOut>>
    /\ UNCHANGED <<storeVars, fetchVars, mergeVars>>

\* dir.join(name) and tokio::fs::write(path, ..).expect(..): an empty name is
\* the directory itself and a name with a separator lies in a subdirectory
\* that nobody created, so the write fails and the caller panics.
CodecWrite ==
    /\ cPhase = "encoded"
    /\ cPhase' = IF cName = <<>> \/ Slash \in Range(cName)
                 THEN "write_panicked" ELSE "written"
    /\ UNCHANGED <<cIn, cName, cOut>>
    /\ UNCHANGED <<storeVars, fetchVars, mergeVars>>

\* refresh: base64.decode(name) and String::from_utf8(data)
CodecDecode ==
    /\ cPhase = "encoded"
    /\ cOut' = Decode(cName)
    /\ cPhase' = "decoded"
    /\ UNCHANGED <<cIn, cName>>
    /\ UNCHANGED <<storeVars, fetchVars, mergeVars>>

NextCodec ==
    \/ \E s \in CodecInputs : CodecPick(s)
    \/ CodecEncode
    \/ CodecWrite
    \/ CodecDecode

(***************************************************************************)
(* Specifications: each runs one part; the other parts stay as constructed *)
(***************************************************************************)
\* Database::from_dir on an empty root: the caches are empty and the spawned
\* task starts with its initial refresh.
InitStore ==
    /\ read_articles_cache = {} /\ read_dir = {}
    /\ subscriptions_cache = <<>> /\ subs_dir = <<>>
    /\ read_lock = Free /\ subs_lock = Free
    /\ cpc = [c \in Callers |-> "idle"] /\ ckey = [c \in Callers |-> NoKey]
    /\ rpc = "read_open" /\ entries = {} /\ counter = 0
    /\ mark = [k \in Keys |-> "none"]
    /\ db = "open" /\ csub = [c \in Callers |-> NoFeed] /\ lastSub = NoSub
    /\ submark = [u \in PubUrls |-> "none"]
    /\ since = [x \in Keys \cup PubUrls |-> NotWritten]
    /\ queued = FALSE
    /\ in_progress = [u \in Urls |-> NoTask] /\ task = <<>> /\ fetch_lock = Free
    /\ ml = [c \in Consumers |-> NotStarted("u1")]
    /\ fpc = [c \in Consumers |-> "idle"] /\ handle = [c \in Consumers |-> NoTask]
    /\ claims = [t \in 1..MaxTasks |-> 0]
    /\ lastTick = NoTick /\ lastFinish = NoFinish
    /\ mPhase = "new" /\ mSelf = Default("RSS") /\ mFrom = mSelf /\ mPrev = mSelf
    /\ mOther = mSelf /\ mFirst = mSelf
    /\ cPhase = "idle" /\ cIn = <<>> /\ cName = <<>> /\ cOut = <<>>

\* As InitStore, for callers whose pub_urls and article ids hold the separator.
InitAlias ==
    /\ read_articles_cache = {} /\ read_dir = {}
    /\ subscriptions_cache = <<>> /\ subs_dir = <<>>
    /\ read_lock = Free /\ subs_lock = Free
    /\ cpc = [c \in Callers |-> "idle"] /\ ckey = [c \in Callers |-> NoKey]
    /\ rpc = "read_open" /\ entries = {} /\ counter = 0
    /\ mark = [k \in Keys \cup AliasKeys |-> "none"]
    /\ db = "open" /\ csub = [c \in Callers |-> NoFeed] /\ lastSub = NoSub
    /\ submark = [u \in PubUrls |-> "none"]
    /\ since = [x \in Keys \cup PubUrls \cup AliasKeys |-> NotWritten]
    /\ queued = FALSE
    /\ in_progress = [u \in Urls |-> NoTask] /\ task = <<>> /\ fetch_lock = Free
    /\ ml = [c \in Consumers |-> NotStarted("u1")]
    /\ fpc = [c \in Consumers |-> "idle"] /\ handle = [c \in Consumers |-> NoTask]
    /\ claims = [t \in 1..MaxTasks |-> 0]
    /\ lastTick = NoTick /\ lastFinish = NoFinish
    /\ mPhase = "new" /\ mSelf = Default("RSS") /\ mFrom = mSelf /\ mPrev = mSelf
    /\ mOther = mSelf /\ mFirst = mSelf
    /\ cPhase = "idle" /\ cIn = <<>> /\ cName = <<>> /\ cOut = <<>>

\* Fetcher::new, and every consumer holding NotStarted(url) for some url.
InitFetch ==
    /\ in_progress = [u \in Urls |-> NoTask] /\ task = <<>> /\ fetch_lock = Free
    /\ ml \in [Consumers -> {NotStarted(u) : u \in Urls}]
    /\ fpc = [c \in Consumers |-> "idle"] /\ handle = [c \in Consumers |-> NoTask]
    /\ claims = [t \in 1..MaxTasks |-> 0]
    /\ lastTick = NoTick /\ lastFinish = NoFinish
    /\ read_articles_cache = {} /\ read_dir = {}
    /\ subscriptions_cache = <<>> /\ subs_dir = <<>>
    /\ read_lock = Free /\ subs_lock = Free
    /\ cpc = [c \in Callers |-> "idle"] /\ ckey = [c \in Callers |-> NoKey]
    /\ rpc = "loop" /\ entries = {} /\ counter = 0
    /\ mark = [k \in Keys |-> "none"]
    /\ db = "open" /\ csub = [c \in Callers |-> NoFeed] /\ lastSub = NoSub
    /\ submark = [u \in PubUrls |-> "none"]
    /\ since = [x \in Keys \cup PubUrls |-> NotWritten]
    /\ queued = FALSE
    /\ mPhase = "new" /\ mSelf = Default("RSS") /\ mFrom = mSelf /\ mPrev = mSelf
    /\ mOther = mSelf /\ mFirst = mSelf
    /\ cPhase = "idle" /\ cIn = <<>> /\ cName = <<>> /\ cOut = <<>>

\* A default feed of either kind, nothing merged yet.
InitMerge ==
    /\ mPhase = "new"
    /\ mSelf \in {Default(k) : k \in Kinds}
    /\ mFrom = mSelf /\ mPrev = mSelf /\ mOther = mSelf /\ mFirst = mSelf
    /\ read_articles_cache = {} /\ read_dir = {}
    /\ subscriptions_cache = <<>> /\ subs_dir = <<>>
    /\ read_lock = Free /\ subs_lock = Free
    /\ cpc = [c \in Callers |-> "idle"] /\ ckey = [c \in Callers |-> NoKey]
    /\ rpc = "loop" /\ entries = {} /\ counter = 0
    /\ mark = [k \in Keys |-> "none"]
    /\ db = "open" /\ csub = [c \in Callers |-> NoFeed] /\ lastSub = NoSub
    /\ submark = [u \in PubUrls |-> "none"]
    /\ since = [x \in Keys \cup PubUrls |-> NotWritten]
    /\ queued = FALSE
    /\ in_progress = [u \in Urls |-> NoTask] /\ task = <<>> /\ fetch_lock = Free
    /\ ml = [c \in Consumers |-> NotStarted("u1")]
    /\ fpc = [c \in Consumers |-> "idle"] /\ handle = [c \in Consumers |-> NoTask]
    /\ claims = [t \in 1..MaxTasks |-> 0]
    /\ lastTick = NoTick /\ lastFinish = NoFinish
    /\ cPhase = "idle" /\ cIn = <<>> /\ cName = <<>> /\ cOut = <<>>

\* A string about to be encoded.
InitCodec ==
    /\ cPhase = "new" /\ cIn \in CodecInputs /\ cName = <<>> /\ cOut = <<>>
    /\ read_articles_cache = {} /\ read_dir = {}
    /\ subscriptions_cache = <<>> /\ subs_dir = <<>>
    /\ read_lock = Free /\ subs_lock = Free
    /\ cpc = [c \in Callers |-> "idle"] /\ ckey = [c \in Callers |-> NoKey]
    /\ rpc = "loop" /\ entries = {} /\ counter = 0
    /\ mark = [k \in Keys |-> "none"]
    /\ db = "open" /\ csub = [c \in Callers |-> NoFeed] /\ lastSub = NoSub
    /\ submark = [u \in PubUrls |-> "none"]
    /\ since = [x \in Keys \cup PubUrls |-> NotWritten]
    /\ queued = FALSE
    /\ in_progress = [u \in Urls |-> NoTask] /\ task = <<>> /\ fetch_lock = Free
    /\ ml = [c \in Consumers |-> NotStarted("u1")]
    /\ fpc = [c \in Consumers |-> "idle"] /\ handle = [c \in Consumers |-> NoTask]
    /\ claims = [t \in 1..MaxTasks |-> 0]
    /\ lastTick = NoTick /\ lastFinish = NoFinish
    /\ mPhase = "new" /\ mSelf = Default("RSS") /\ mFrom = mSelf /\ mPrev = mSelf
    /\ mOther = mSelf /\ mFirst = mSelf

SpecStore == InitStore /\ [][NextStore]_vars

SpecFetch == InitFetch /\ [][NextFetch]_vars

\* tick is called again and again on every value, a spawned request ends, and
\* the lock of the registry is granted in turn.
FairSpecFetch ==
    /\ SpecFetch
    /\ \A c \in Consumers : SF_vars(Tick(c))
    /\ \A t \in 1..MaxTasks : WF_vars(TaskFinish(t))

SpecMerge == InitMerge /\ [][NextMerge]_vars

SpecMergePair == InitMerge /\ [][NextMergePair]_vars

\* Subscriptions against the background task.
SpecSubs == InitStore /\ [][NextSubs]_vars
SpecResyncRead == InitStore /\ [][NextResyncRead]_vars
SpecResyncSubs == InitStore /\ [][NextResyncSubs]_vars
SpecDurable == InitStore /\ [][NextDurable]_vars
SpecFaults == InitStore /\ [][NextFaults]_vars
SpecAlias == InitAlias /\ [][NextAlias]_vars
SpecScan == InitStore /\ [][NextScan]_vars
SpecConverge == InitStore /\ [][NextConverge]_vars

\* A Database whose root another instance writes to.
SpecForeign == InitStore /\ [][NextForeign]_vars

\* A Database through from_dir, drop and restart.
SpecLife == InitStore /\ [][NextLife]_vars

SpecCodec == InitCodec /\ [][NextCodec]_vars

Spec == SpecStore

(***************************************************************************)
(* Read markers against the background refresh                             *)
(***************************************************************************)
\* C1: once markRead(u, a) has returned and no markUnread(u, a) was called
\* since, hasRead(u, a) is true whenever the read-set can be read.
C1_MarkReadStays ==
    \A u \in PubUrls, a \in ArticleIds :
        (mark[CompositeKey(u, a)] = "read" /\ read_lock = Free) => HasRead(u, a)

\* C2: once markUnread(u, a) has returned and no markRead(u, a) was called
\* since, hasRead(u, a) is false whenever the read-set can be read.
C2_MarkUnreadStays ==
    \A u \in PubUrls, a \in ArticleIds :
        (mark[CompositeKey(u, a)] = "unread" /\ read_lock = Free) => ~HasRead(u, a)

(***************************************************************************)
(* The registry of downloads                                               *)
(***************************************************************************)
\* A task that runs, or has ended with nobody having been given its outcome.
Unclaimed(t) ==
    \/ task[t].st = "running"
    \/ task[t].st \in Finished /\ claims[t] = 0

\* C3: at every time at most one task per url is running or finished and
\* unclaimed, whoever called start_download and however often.
C3_OneTaskPerUrl ==
    \A u \in Urls :
        Cardinality({t \in DOMAIN task : task[t].url = u /\ Unclaimed(t)}) <= 1

\* C4: the outcome of a task is returned by at most one try_finish call, a
\* call that returns an outcome found the entry and removed it, and a task
\* whose outcome was returned is in nobody's hands any more.
C4_ClaimedOnce ==
    /\ \A t \in DOMAIN task :
         /\ claims[t] <= 1
         /\ claims[t] = 1 =>
              /\ task[t].st \in {"ok", "bad", "err"}
              /\ \A u \in Urls : in_progress[u] # t
              /\ \A c \in Consumers : handle[c] # t
    /\ lastFinish.result \in {"ok", "bad", "err"} =>
         /\ lastFinish.pre[lastFinish.url] # NoTask
         /\ lastFinish.post[lastFinish.url] = NoTask

\* A try_finish call found no entry for a url whose download was claimed before.
C4_LaterCallGetsNothing ==
    /\ lastFinish.result = "absent"
    /\ \E t \in DOMAIN task : task[t].url = lastFinish.url /\ claims[t] = 1

\* C5: a try_finish call that finds an unfinished task, or no entry, leaves the
\* registry as it found it, with the same task under the url; and whoever holds
\* a removed handle holds the write lock, so nobody sees the registry without it.
C5_PendingKept ==
    /\ lastFinish.result \in {"pending", "absent"} => lastFinish.post = lastFinish.pre
    /\ \A c \in Consumers : handle[c] # NoTask => fetch_lock = c

\* A try_finish call returned nothing for a task that still runs and is registered.
C5_PolledWhilePending ==
    /\ lastFinish.result = "pending"
    /\ lastFinish.pre[lastFinish.url] # NoTask
    /\ in_progress[lastFinish.url] = lastFinish.pre[lastFinish.url]
    /\ task[in_progress[lastFinish.url]].st = "running"

\* A task for the url of consumer c panicked: its download did not complete
\* with a success, an error or a timeout.
JoinFailed(c) ==
    \E t \in DOMAIN task : task[t].url = ml[c].url /\ task[t].st \in {"panic", "join_error"}

\* C6: a value that is NotStarted reaches Done, Failed or BadStatus when tick
\* is called again and again and the download of its url completes (left aside:
\* runs in which the task panicked, or a tick panicked while reading a body).
C6_ReachesTerminal ==
    \A c \in Consumers :
        (ml[c].st = "NotStarted") ~>
            \/ ml[c].st \in Terminal
            \/ JoinFailed(c)
            \/ \E d \in Consumers : fpc[d] = "panicked"

\* C7: a tick of a value that is Done, Failed or BadStatus changes neither the
\* value nor the registry nor any task, and makes no Fetcher call.
C7_TerminalTickNoOp ==
    [][\A c \in Consumers :
          (fpc[c] = "idle" /\ ml[c].st \in Terminal
             /\ lastTick' # lastTick /\ lastTick'.who = c)
          => /\ lastTick'.call = "none"
             /\ ml' = ml /\ in_progress' = in_progress /\ task' = task
             /\ fetch_lock' = fetch_lock /\ claims' = claims]_vars

\* A value in a terminal state was ticked.
C7_TerminalTicked ==
    /\ lastTick.who \in Consumers
    /\ lastTick.pre.st \in Terminal
    /\ ml[lastTick.who] = lastTick.pre

(***************************************************************************)
(* Merge                                                                   *)
(***************************************************************************)
\* C8: merging a feed into itself leaves it as it was, and merging the same
\* incoming feed a second time leaves the feed as the first merge left it.
C8_MergeIdempotent ==
    /\ mPhase = "selfmerged" => mSelf = mPrev
    /\ mPhase = "remerged" => mSelf = mPrev

\* The same incoming feed, with an item colliding with a stored one, was merged twice.
C8_MergedTwice ==
    /\ mPhase = "remerged"
    /\ mFrom.kind = mSelf.kind
    /\ Len(mSelf.items) > Len(mFrom.items)
    /\ Len(mFrom.items) > 0

\* C9: updates a and b with disjoint identities, merged in either order, leave
\* the same set of items.
C9_Confluent ==
    mPhase = "pair" => Range(mSelf.items) = Range(mOther.items)

\* C10: merge leaves the old items whose identity is not in the incoming feed,
\* in their order, followed by the incoming items, with the incoming metadata.
C10_MergeResult ==
    (mPhase = "merged" /\ mFrom.kind = mPrev.kind) =>
        mSelf = [kind  |-> mPrev.kind,
                 meta  |-> mFrom.meta,
                 items |-> SelectSeq(mPrev.items,
                               LAMBDA item : Identity(item) \notin IdSet(mFrom))
                           \o mFrom.items]

(***************************************************************************)
(* Subscriptions                                                           *)
(***************************************************************************)
\* How many items of feed f carry identity id.
Count(f, id) == Cardinality({i \in DOMAIN f.items : Identity(f.items[i]) = id})

\* C11: subscribe on a pub_url that already holds a feed stores a feed in which
\* every identity of the stored feed and of the update occurs exactly once: with
\* the update's item where the update has the identity, with the stored item
\* otherwise; and the file written holds that same merged feed.
C11_SubscribeMerges ==
    (lastSub.who # "none" /\ lastSub.had /\ lastSub.stored.kind = lastSub.update.kind) =>
        /\ IdSet(lastSub.merged) = IdSet(lastSub.stored) \cup IdSet(lastSub.update)
        /\ \A id \in IdSet(lastSub.merged) : Count(lastSub.merged, id) = 1
        /\ \A item \in Range(lastSub.merged.items) :
               IF Identity(item) \in IdSet(lastSub.update)
               THEN item \in Range(lastSub.update.items)
               ELSE item \in Range(lastSub.stored.items)
        /\ lastSub.returned = "unit" => lastSub.file = lastSub.merged

\* C12: subscribe with a feed of the other kind than the stored one does not
\* abort, leaves the stored feed as it was, and the caller is handed a warning
\* about the mismatch.
C12_MismatchWarned ==
    (lastSub.who # "none" /\ lastSub.had /\ lastSub.stored.kind # lastSub.update.kind) =>
        /\ lastSub.merged = lastSub.stored
        /\ cpc[lastSub.who] # "panicked"
        /\ lastSub.returned \in {"pending", "warning"}

\* C16: once subscribe(u, f) has returned and unsubscribe(u) was not called
\* since, getSubscription(u) is present whenever the map can be read.
C16_SubscribeStays ==
    \A u \in PubUrls :
        (submark[u] = "subscribed" /\ subs_lock = Free) => HasSubscription(u)

(***************************************************************************)
(* File names                                                              *)
(***************************************************************************)
\* C13: the file name made of a string of valid UTF-8 decodes to that string.
C13_RoundTrip ==
    cPhase = "decoded" => cOut = cIn

\* A string with a two-byte character whose name ends in padding was decoded.
C13_Decoded ==
    /\ cPhase = "decoded"
    /\ 195 \in Range(cIn)
    /\ Len(cIn) % 3 # 0
    /\ Pad \in Range(cName)
    /\ cOut # DecodeFailed

\* C14: the file name made of any string has no path separator in it, and the
\* write of the file named by it inside the directory does not fail.
C14_NoSeparator ==
    /\ cPhase \in {"encoded", "decoded", "written", "write_panicked"} =>
           Slash \notin Range(cName)
    /\ cPhase # "write_panicked"

(***************************************************************************)
(* Two instances on one root; restart; drop; startup failures              *)
(***************************************************************************)
\* C15: once the other instance has completed markRead(u, a) or subscribe(u, f)
\* and the loop of this instance has gone through ForcedRefresh iterations and
\* the refresh pass it started has ended, hasRead(u, a) is true and
\* getSubscription(u) is present on this instance.
C15_ForeignSeen ==
    rpc = "loop" =>
        /\ \A k \in Keys : since[k] = ForcedRefresh => k \in read_articles_cache
        /\ \A u \in PubUrls : since[u] = ForcedRefresh => HasSubscription(u)

\* A marker and a subscription of the other instance are both seen after the
\* interval.
C15_SeenAfterInterval ==
    /\ rpc = "loop"
    /\ \E k \in Keys : since[k] = ForcedRefresh /\ k \in read_articles_cache
    /\ \E u \in PubUrls : since[u] = ForcedRefresh /\ HasSubscription(u)

\* C17: when markRead(u, a) had completed on an earlier Database on this root,
\* hasRead(u, a) is true on the Database opened afterwards, from the return of
\* from_dir on and without a new write.
C17_RestartKeepsRead ==
    \A k \in Keys :
        (db = "open" /\ mark[k] = "read_before" /\ read_lock = Free) =>
            k \in read_articles_cache

\* C18: whenever no markRead/markUnread call and no refresh is in progress, a
\* key is in the read-set exactly if its marker file is in read/.
C18_SetMirrorsFiles ==
    ((\A c \in Callers : cpc[c] = "idle") /\ rpc = "loop") =>
        \A k \in Keys : k \in read_articles_cache <=> Encode(k) \in read_dir

\* C19: once the Database is dropped its task runs no further refresh pass and
\* the two caches are not written again.
C19_DropStopsTask ==
    [][(db = "dropped" /\ db' = "dropped") =>
          /\ rpc' = rpc
          /\ read_articles_cache' = read_articles_cache
          /\ subscriptions_cache' = subscriptions_cache]_vars

\* C20: when a directory cannot be created or the watch cannot be installed,
\* from_dir hands no usable Database to its caller.
C20_StartupFailureFatal ==
    /\ rpc = "panicked" => db # "open"
    /\ db = "failed" => rpc = "gone"

(***************************************************************************)
(* tick: failures, edges and the mapping of outcomes                       *)
(***************************************************************************)
\* C25: no tick panics, and a tick that met a failure (of the request, of the
\* status, of reading or decoding the body, of joining the task) leaves a
\* terminal value.
C25_FailuresTerminal ==
    \A c \in Consumers :
        /\ fpc[c] # "panicked"
        /\ (lastFinish.who = c /\ lastFinish.result = "join_error"
              /\ lastTick.who = c /\ fpc[c] = "idle") => ml[c].st \in Terminal

\* How far a value is: NotStarted, Working, then Done / Failed / BadStatus.
Rank(v) == IF v.st = "NotStarted" THEN 0 ELSE IF v.st = "Working" THEN 1 ELSE 2

\* The step is part of a tick of consumer c.
TickStep(c) == fpc[c] \in {"sd_insert", "tf_decide"} \/ lastTick'.who = c

\* C26: a step of tick that changes the value moves it one edge forward, and
\* the value is never more than one edge past what the tick call found.
C26_OneEdge ==
    [][\A c \in Consumers :
          (TickStep(c) /\ ml'[c] # ml[c]) =>
              /\ Rank(ml'[c]) = Rank(ml[c]) + 1
              /\ lastTick'.who = c => Rank(ml'[c]) <= Rank(lastTick'.pre) + 1]_vars

\* A value went NotStarted, Working, Done through two ticks.
C26_TickedToDone ==
    \E c \in Consumers :
        /\ ml[c].st = "Done"
        /\ lastTick.who = c /\ lastTick.pre.st = "Working"
        /\ lastFinish.who = c /\ lastFinish.result = "ok"

\* C27: the tick of a Working value maps what try_finish gives: nothing (not
\* finished, or no outcome) leaves Working(url); an error gives Failed(url); a
\* status outside 2xx gives BadStatus; a 2xx response gives Done(url, result of
\* the decoding), a failed decoding included.
C27_OutcomeMapping ==
    [][\A c \in Consumers :
          (fpc[c] = "tf_decide" /\ fpc'[c] # "tf_decide") =>
              LET o == task[handle[c]].st
                  url == ml[c].url
              IN  /\ o \in {"running", "panic"} => ml'[c] = Working(url)
                  /\ o = "err" => ml'[c] = Failed(url)
                  /\ o = "bad" => ml'[c] = BadStatus
                  /\ o = "ok" => ml'[c] \in {Done(url, "Ok"), Done(url, "Err")}]_vars

(***************************************************************************)
(* unread and unsubscribe against the files                                *)
(***************************************************************************)
\* C23: unread completes without an error, also when the key is in the set
\* and its marker file is not in read/: no caller of unread ends in a panic.
C23_UnreadWithoutFile ==
    \A c \in Callers : cpc[c] # "panicked"

\* C24: once unsubscribe(u) has returned, with no other call on u since, there
\* is no entry for u in memory and no file named encode(u) in subscriptions/,
\* whether or not the cache held u when it was called.
C24_UnsubscribeRemoves ==
    \A u \in PubUrls :
        submark[u] = "unsubscribed" =>
            /\ ~HasSubscription(u)
            /\ Encode(u) \notin DOMAIN subs_dir

(***************************************************************************)
(* Failures met by the store and by the task; refresh as a resync          *)
(***************************************************************************)
\* C21: after a successful start the loop of the task is never ended by a
\* failure met during a refresh pass: a directory that cannot be read, a name
\* that does not decode, a feed that does not parse.
C21_TaskSurvivesRefresh ==
    rpc \notin {"panicked", "gone"}

\* A caller between the change in memory and the write of the file.
Writing(c) == cpc[c] \in {"read_write", "subscribe_write"}

\* C22: a call of read or subscribe that leaves its write either returns with
\* the file written, or the write failed: then the failure reaches the caller
\* (the call ends in a panic, not in a return) and the change made in memory
\* stays, nothing being changed on disk.
C22_WriteFailureKept ==
    [][\A c \in Callers :
          (Writing(c) /\ ~Writing(c)') =>
              IF cpc'[c] = "idle"
              THEN IF cpc[c] = "read_write"
                   THEN Encode(ckey[c]) \in read_dir'
                   ELSE Encode(ckey[c]) \in DOMAIN subs_dir'
              ELSE /\ cpc'[c] = "write_panicked"
                   /\ read_articles_cache' = read_articles_cache
                   /\ subscriptions_cache' = subscriptions_cache
                   /\ read_dir' = read_dir /\ subs_dir' = subs_dir]_vars

\* A failed markRead and a failed subscribe have left a key and a feed in
\* memory that have no file.
C22_MemoryAheadOfDisk ==
    /\ cpc["c1"] = "write_panicked" /\ ckey["c1"] \in read_articles_cache
    /\ Encode(ckey["c1"]) \notin read_dir
    /\ cpc["c2"] = "write_panicked" /\ HasSubscription(ckey["c2"])
    /\ Encode(ckey["c2"]) \notin DOMAIN subs_dir

\* No call of read or unread is between its two steps.
NoMarkCall == \A c \in Callers : cpc[c] \notin {"read_write", "unread_remove_file"}

NoSubsCall == \A c \in Callers : cpc[c] \notin {"subscribe_write", "unsubscribe_remove_file"}

\* The files of subs/ with a name that decodes and a content that parses.
GoodSubs(dir) ==
    {n \in DOMAIN dir : /\ Decode(n) # DecodeFailed
                        /\ Readable(dir[n])
                        /\ FeedFromStr(dir[n]).kind # "Err"}

HasReadReady == read_lock = Free
\* Database::get_subscriptions and get_subscription can take theirs.
GetSubscriptionsReady == subs_lock = Free

\* C30: a reader never sees a cache that refresh has emptied or half rebuilt:
\* whenever hasRead, getSubscription or listSubscriptions can take its lock,
\* refresh is not between the start and the end of the rebuild of that cache.
C30_RefreshAtomic ==
    /\ HasReadReady => rpc # "read_scan"
    /\ GetSubscriptionsReady => rpc # "subs_scan"

\* refresh holds the lock over a set it has emptied and not yet refilled.
C30_ReaderHeldOff ==
    /\ rpc = "read_scan" /\ ~HasReadReady
    /\ read_articles_cache = {} /\ DecodedKeys(read_dir) # {}
    /\ subscriptions_cache # <<>>

(***************************************************************************)
(* The lock during refresh, and two values on one url                      *)
(***************************************************************************)
\* The task is at the loop over next_entry of read/ (inotify.rs:76-91), resp.
\* at the loop over next_entry and read_to_string of subs/ (inotify.rs:98-145).
ReadDirIO == rpc = "read_scan"
SubsDirIO == rpc = "subs_scan"
\* Caller c is at the remove_file of unsubscribe.
UnsubscribeIO(c) == cpc[c] = "unsubscribe_remove_file"

\* C31: no filesystem operation is made under a writer lock: refresh does not
\* hold the lock of a cache while it iterates the directory or reads its
\* files, and unsubscribe does not hold it while it removes the file.
C31_NoIOUnderLock ==
    /\ ReadDirIO => read_lock # "refresh"
    /\ SubsDirIO => subs_lock # "refresh"
    /\ \A c \in Callers : UnsubscribeIO(c) => subs_lock # c

\* C34: two values Working on the same url both reach Done, Failed or
\* BadStatus when both are ticked again and again and the download completes
\* (left aside: runs in which the task or a tick panicked, or in which one of
\* the two values was replaced).
C34_SharedUrlBothFinish ==
    \A c, d \in Consumers :
        (c # d /\ ml[c].st = "Working" /\ ml[d].st = "Working" /\ ml[c].url = ml[d].url)
          ~> \/ ml[c].st \in Terminal /\ ml[d].st \in Terminal
             \/ ml[c].st = "NotStarted" \/ ml[d].st = "NotStarted"
             \/ JoinFailed(c)
             \/ \E e \in Consumers : fpc[e] = "panicked"

\* C35: markers of distinct pairs do not alias: has_read(u, a) holds only for
\* a pair that read was called with, or whose marker file is in read/; so a
\* pair that no caller ever passes to read is not read while read/ has no file
\* for it, whether or not the separator occurs in its parts.
C35_NoAlias ==
    \A p \in AliasPairs \ MarkedPairs :
        HasRead(p[1], p[2]) => Encode(CompositeKey(p[1], p[2])) \in read_dir

\* C36: subscribes to one pub_url converge: when every subscribe call has
\* returned (also calls that ran concurrently) and the map holds a feed for the
\* pub_url, the file encode(pub_url) holds the serialization of that feed; this
\* stays so after the next refresh pass.
C36_SubscribesConverge ==
    \A u \in PubUrls :
        (NoSubsCall /\ HasSubscription(u) /\ Encode(u) \in DOMAIN subs_dir)
            => subs_dir[Encode(u)] = FeedToString(subscriptions_cache[u])

C33_Cadence ==
    [][(rpc = "loop" /\ (rpc' # rpc \/ counter' # counter)) =>
          /\ counter \in 0..ForcedRefresh /\ counter' \in 0..ForcedRefresh
          /\ queued => rpc' = "read_open"
          /\ counter = ForcedRefresh - 1 => rpc' = "read_open"]_vars

====
